---- MODULE Spec2Model ----
(***************************************************************************)
(* Model of get_player_game_log (src/app.py), the cumulative performance   *)
(* aggregator: the game-log response is unpacked, the per-game records are *)
(* sorted by their date string, and one forward pass keeps six running     *)
(* sums and appends a snapshot for every game after which the cumulative   *)
(* at-bats are positive.                                                   *)
(*                                                                         *)
(* A dictionary is a function whose domain is the set of keys present, so  *)
(* that an absent key and a key holding 0 are different inputs.  A string  *)
(* used as a sort key is the sequence of its character codes, compared as  *)
(* Python compares strings.  A ratio is an exact fraction in lowest terms. *)
(***************************************************************************)
EXTENDS Integers, Sequences, FiniteSets, TLC

VARIABLES
    pc,             \* position in get_player_game_log
    data,           \* the decoded response (response.json())
    game_logs,      \* data['stats'][0].get('splits', [])
    sorted_logs,    \* the list the for statement iterates over
    idx,            \* 1-based position of the next game of sorted_logs
    cumulative_ab,
    cumulative_h,
    cumulative_bb,
    cumulative_hbp,
    cumulative_sf,
    cumulative_tb,
    game_data,      \* the snapshots appended so far
    result          \* the value returned

vars == <<pc, data, game_logs, sorted_logs, idx, cumulative_ab, cumulative_h,
          cumulative_bb, cumulative_hbp, cumulative_sf, cumulative_tb,
          game_data, result>>

(***************************************************************************)
(* Dictionaries and strings                                                *)
(***************************************************************************)

\* {} : the dictionary with no key
EmptyDict == [k \in {} |-> 0]

\* d.get(k, default)
Get(d, k, default) == IF k \in DOMAIN d THEN d[k] ELSE default

\* '' : the empty string
EmptyStr == <<>>

\* a < b on strings: the first differing character decides, a proper prefix
\* is smaller
RECURSIVE StrLess(_, _)
StrLess(a, b) ==
    IF b = <<>> THEN FALSE
    ELSE IF a = <<>> THEN TRUE
    ELSE IF a[1] # b[1] THEN a[1] < b[1]
    ELSE StrLess(Tail(a), Tail(b))

\* the mutant of DateKey whose records without a date sort behind the others
DateKeyMissingLast(game) == Get(game, "date", <<127>>)

\* the sort key: lambda x: x.get('date', '')
DateKey(game) == Get(game, "date", EmptyStr)

\* the mutant of InsertByDate that puts g in front of the elements of its key
RECURSIVE InsertBeforeEquals(_, _)
InsertBeforeEquals(g, s) ==
    IF s = <<>> THEN <<g>>
    ELSE IF ~StrLess(Get(s[1], "date", <<>>), Get(g, "date", <<>>)) THEN <<g>> \o s
    ELSE <<s[1]>> \o InsertBeforeEquals(g, Tail(s))

\* s with g put behind every element whose key is not greater than g's
RECURSIVE InsertByDate(_, _)
InsertByDate(g, s) ==
    IF s = <<>> THEN <<g>>
    ELSE IF StrLess(DateKey(g), DateKey(s[1])) THEN <<g>> \o s
    ELSE <<s[1]>> \o InsertByDate(g, Tail(s))

\* the mutant of SortedByDate that leaves the list in the order given
UnsortedByDate(logs) == logs

\* sorted(game_logs, key=lambda x: x.get('date', '')): ascending and stable
RECURSIVE SortedByDate(_)
SortedByDate(logs) ==
    IF logs = <<>> THEN <<>>
    ELSE InsertByDate(logs[Len(logs)], SortedByDate(SubSeq(logs, 1, Len(logs) - 1)))

(***************************************************************************)
(* Values of the wrong type.  The response is decoded JSON, so a field can *)
(* hold null where a number, a string or an object is expected.  null is   *)
(* written here as a number no count takes, as a string of that one code,  *)
(* and as a dictionary with the one key "null".                            *)
(***************************************************************************)

Null == 1000000
NullStr == <<Null>>
NullDict == [null |-> TRUE]

\* v can be added to an int
IsNumber(v) == v # Null

\* comparing the sort keys raises TypeError: sorted compares every key of a
\* list of two or more, and None is not comparable, with a str or with None
SortRaises(logs) ==
    Len(logs) >= 2 /\ \E i \in 1 .. Len(logs) : DateKey(logs[i]) = NullStr

\* the exception raised by lines 151-179 for the game, "" if there is none:
\* stat.get on None, the derivation of the total bases when totalBases == 0,
\* and the six additions
ReadError(game) ==
    LET stat == Get(game, "stat", EmptyDict)
        game_tb == Get(stat, "totalBases", 0)
    IN  IF stat = NullDict THEN "AttributeError"
        ELSE IF /\ game_tb = 0
                /\ \E f \in {"hits", "doubles", "triples", "homeRuns"} :
                      ~IsNumber(Get(stat, f, 0))
             THEN "TypeError"
        ELSE IF \E f \in {"atBats", "hits", "baseOnBalls", "hitByPitch",
                          "sacFlies", "totalBases"} : ~IsNumber(Get(stat, f, 0))
             THEN "TypeError"
        ELSE ""

\* the sums when the exception is raised: the additions made before it
SumsAtError(c, game) ==
    LET stat == Get(game, "stat", EmptyDict)
        ab == Get(stat, "atBats", 0)
        h == Get(stat, "hits", 0)
        bb == Get(stat, "baseOnBalls", 0)
        hbp == Get(stat, "hitByPitch", 0)
        sf == Get(stat, "sacFlies", 0)
        ok1 == IsNumber(ab)
        ok2 == ok1 /\ IsNumber(h)
        ok3 == ok2 /\ IsNumber(bb)
        ok4 == ok3 /\ IsNumber(hbp)
        ok5 == ok4 /\ IsNumber(sf)
    IN  IF stat = NullDict
           \/ (Get(stat, "totalBases", 0) = 0
                 /\ \E f \in {"hits", "doubles", "triples", "homeRuns"} :
                       ~IsNumber(Get(stat, f, 0)))
        THEN c
        ELSE [ab  |-> IF ok1 THEN c.ab + ab ELSE c.ab,
              h   |-> IF ok2 THEN c.h + h ELSE c.h,
              bb  |-> IF ok3 THEN c.bb + bb ELSE c.bb,
              hbp |-> IF ok4 THEN c.hbp + hbp ELSE c.hbp,
              sf  |-> IF ok5 THEN c.sf + sf ELSE c.sf,
              tb  |-> c.tb]

\* the mutant of Catches whose except clause names ZeroDivisionError alone
CatchesZeroDivisionOnly(kind) == kind = "ZeroDivisionError"

\* except Exception: every exception raised in the try block is caught
Catches(kind) == kind \in {"TypeError", "AttributeError", "ZeroDivisionError"}

(***************************************************************************)
(* Ratios                                                                  *)
(***************************************************************************)

Abs(n) == IF n < 0 THEN -n ELSE n

RECURSIVE GCD(_, _)
GCD(a, b) == IF b = 0 THEN a ELSE GCD(b, a % b)

\* what stands for the value of a division that raised ZeroDivisionError
ZeroDivision == [num |-> 0, den |-> 0]

\* the value of n / d, in lowest terms with a positive denominator
Frac(n, d) ==
    IF d = 0 THEN ZeroDivision
    ELSE LET g == GCD(Abs(n), Abs(d))
             sign == IF d < 0 THEN -1 ELSE 1
         IN  [num |-> (sign * n) \div g, den |-> Abs(d) \div g]

\* the value of a + b
FracAdd(a, b) == Frac(a.num * b.den + b.num * a.den, a.den * b.den)

\* the integer 0 assigned to obp when its denominator is not positive
Zero == Frac(0, 1)

(***************************************************************************)
(* The loop body, piece by piece                                           *)
(***************************************************************************)

\* the mutant of TotalBases that counts an extra-base hit as a single too
TotalBasesDoubleCounted(stat) ==
    LET game_tb == Get(stat, "totalBases", 0)
        game_h == Get(stat, "hits", 0)
    IN  IF game_tb = 0
        THEN game_h + (Get(stat, "doubles", 0) * 2) + (Get(stat, "triples", 0) * 3)
               + (Get(stat, "homeRuns", 0) * 4)
        ELSE game_tb

\* the mutant of TotalBases that forgets the weights of the extra-base hits
TotalBasesSinglesOnly(stat) ==
    LET game_tb == Get(stat, "totalBases", 0)
    IN  IF game_tb = 0
        THEN Get(stat, "hits", 0) - Get(stat, "doubles", 0)
               - Get(stat, "triples", 0) - Get(stat, "homeRuns", 0)
        ELSE game_tb

\* the mutant of TotalBases that counts a triple as two bases
TotalBasesTripleAsDouble(stat) ==
    LET game_tb == Get(stat, "totalBases", 0)
        game_h == Get(stat, "hits", 0)
    IN  IF game_tb = 0
        THEN LET game_doubles == Get(stat, "doubles", 0)
                 game_triples == Get(stat, "triples", 0)
                 game_hr == Get(stat, "homeRuns", 0)
                 game_singles == game_h - game_doubles - game_triples - game_hr
             IN  game_singles + (game_doubles * 2) + (game_triples * 2) + (game_hr * 4)
        ELSE game_tb

\* game_tb: the provider's totalBases unless it is 0 or absent
TotalBases(stat) ==
    LET game_tb == Get(stat, "totalBases", 0)
        game_h == Get(stat, "hits", 0)
    IN  IF game_tb = 0
        THEN LET game_doubles == Get(stat, "doubles", 0)
                 game_triples == Get(stat, "triples", 0)
                 game_hr == Get(stat, "homeRuns", 0)
                 game_singles == game_h - game_doubles - game_triples - game_hr
             IN  game_singles + (game_doubles * 2) + (game_triples * 3) + (game_hr * 4)
        ELSE game_tb

\* the six running sums as one record
Sums == [ab |-> cumulative_ab, h |-> cumulative_h, bb |-> cumulative_bb,
         hbp |-> cumulative_hbp, sf |-> cumulative_sf, tb |-> cumulative_tb]

ZeroSums == [ab |-> 0, h |-> 0, bb |-> 0, hbp |-> 0, sf |-> 0, tb |-> 0]

\* the mutant of Accumulate that passes over a game without at-bats
AccumulateAtBatGamesOnly(c, game) ==
    LET stat == Get(game, "stat", EmptyDict)
    IN  IF Get(stat, "atBats", 0) = 0 THEN c
        ELSE [ab  |-> c.ab + Get(stat, "atBats", 0),
              h   |-> c.h + Get(stat, "hits", 0),
              bb  |-> c.bb + Get(stat, "baseOnBalls", 0),
              hbp |-> c.hbp + Get(stat, "hitByPitch", 0),
              sf  |-> c.sf + Get(stat, "sacFlies", 0),
              tb  |-> c.tb + TotalBases(stat)]

\* the running sums c after the game is added
Accumulate(c, game) ==
    LET stat == Get(game, "stat", EmptyDict)
    IN  [ab  |-> c.ab + Get(stat, "atBats", 0),
         h   |-> c.h + Get(stat, "hits", 0),
         bb  |-> c.bb + Get(stat, "baseOnBalls", 0),
         hbp |-> c.hbp + Get(stat, "hitByPitch", 0),
         sf  |-> c.sf + Get(stat, "sacFlies", 0),
         tb  |-> c.tb + TotalBases(stat)]

\* the mutant of Emits that lets a sum of zero through
EmitsFromZero(c) == c.ab >= 0

\* the mutant of Emits that tests the sum for truth, not for being positive
EmitsNonZero(c) == c.ab # 0

\* the mutant of Emits that asks for more than one at-bat
EmitsAboveOne(c) == c.ab > 1

\* the gate of the snapshot: if cumulative_ab > 0
Emits(c) == c.ab > 0

\* the mutant of OnBase that divides whatever the denominator is
OnBaseUnguarded(c) == Frac(c.h + c.bb + c.hbp, c.ab + c.bb + c.hbp + c.sf)

\* the mutant of OnBase that leaves the sacrifice flies out of the denominator
OnBaseNoSacFlies(c) ==
    LET denominator_obp == c.ab + c.bb + c.hbp
    IN  IF denominator_obp > 0
        THEN Frac(c.h + c.bb + c.hbp, denominator_obp)
        ELSE Zero

\* obp
OnBase(c) ==
    LET denominator_obp == c.ab + c.bb + c.hbp + c.sf
    IN  IF denominator_obp > 0
        THEN Frac(c.h + c.bb + c.hbp, denominator_obp)
        ELSE Zero

\* slg, computed only behind the gate
Slugging(c) == Frac(c.tb, c.ab)

\* avg, computed only behind the gate
Average(c) == Frac(c.h, c.ab)

\* a division of the iteration raises: both divide by cumulative_ab, and the
\* division of obp is guarded
Raises(c) == Emits(c) /\ c.ab = 0

\* the mutant of GameNumber that numbers by the position among all games
GameNumberOfAllGames(rows, pos) == pos

\* 'game_number': len(game_data) + 1
GameNumber(rows, pos) == Len(rows) + 1

\* the dictionary appended to game_data
Snapshot(game, c, rows, pos) ==
    [date        |-> Get(game, "date", EmptyStr),
     game_number |-> GameNumber(rows, pos),
     ops         |-> FracAdd(OnBase(c), Slugging(c)),
     obp         |-> OnBase(c),
     slg         |-> Slugging(c),
     avg         |-> Average(c),
     ab          |-> c.ab,
     h           |-> c.h]

\* game_data after the game at position pos, c being the sums with it added
Emit(rows, game, c, pos) ==
    IF Emits(c) /\ ~Raises(c) THEN Append(rows, Snapshot(game, c, rows, pos)) ELSE rows

(***************************************************************************)
(* The response and the value returned                                     *)
(***************************************************************************)

None == [kind |-> "None", rows |-> <<>>]
Pending == [kind |-> "pending", rows |-> <<>>]
DataFrame(rows) == [kind |-> "DataFrame", rows |-> rows]

\* not data.get('stats') or len(data['stats']) == 0
NoStats(d) == Get(d, "stats", <<>>) = <<>>

\* data['stats'][0].get('splits', [])
Splits(d) == Get(d["stats"][1], "splits", <<>>)

\* the mutant of Returned that builds the data frame whatever the list holds
ReturnedAlways(rows) == DataFrame(rows)

\* latest_ops: the ops of the last row of the data frame, shown as the
\* season-to-date figure
LatestOps(frame) == frame.rows[Len(frame.rows)].ops

\* pd.DataFrame(game_data) if game_data else None
Returned(rows) == IF rows # <<>> THEN DataFrame(rows) ELSE None

(***************************************************************************)
(* The whole computation as a function of the list of records              *)
(***************************************************************************)

\* the exception an iteration raises with the sums c of the game added
IterationError(game, c) ==
    IF ReadError(game) # "" THEN ReadError(game)
    ELSE IF Raises(c) THEN "ZeroDivisionError"
    ELSE ""

\* the sums and the snapshots after the first n games of the sorted list
\* (raised: the exception of the iteration that ended the pass, "" if none)
RECURSIVE Pass(_, _)
Pass(sorted, n) ==
    IF n = 0 THEN [sums |-> ZeroSums, rows |-> <<>>, raised |-> ""]
    ELSE LET before == Pass(sorted, n - 1)
             c == Accumulate(before.sums, sorted[n])
         IN  IF before.raised # "" THEN before
             ELSE IF ReadError(sorted[n]) # ""
                  THEN [sums |-> SumsAtError(before.sums, sorted[n]),
                        rows |-> before.rows, raised |-> ReadError(sorted[n])]
             ELSE [sums |-> c, rows |-> Emit(before.rows, sorted[n], c, n),
                   raised |-> IterationError(sorted[n], c)]

\* what the except clause makes of an exception: None, or nothing returned
AfterException(kind) == IF Catches(kind) THEN None ELSE Pending

\* what get_player_game_log returns when the response carries the list logs:
\* an exception of the sort or of the pass is caught and None returned
Aggregate(logs) ==
    IF SortRaises(logs) THEN AfterException("TypeError")
    ELSE LET sorted == SortedByDate(logs)
             pass == Pass(sorted, Len(sorted))
         IN  IF pass.raised # "" THEN AfterException(pass.raised)
             ELSE Returned(pass.rows)

(***************************************************************************)
(* Inputs                                                                  *)
(***************************************************************************)

MaxGames == 2       \* records in one response
MaxAtBats == 1      \* largest atBats of a record that carries atBats alone
MaxHits == 3        \* largest hits of a record of the total-bases family
MaxExtra == 1       \* largest doubles, triples, homeRuns of that family
MaxTotalBases == 1  \* largest totalBases of that family

\* '10' and '9' as character codes: '10' < '9' as strings
Str10 == <<49, 48>>
Str9 == <<57>>

\* records that carry atBats alone, under every kind of date
GateGames ==
    LET stats == {[atBats |-> a] : a \in (-1) .. MaxAtBats}
    IN  {[stat |-> s] : s \in stats}
          \cup {[date |-> d, stat |-> s] : d \in {EmptyStr, Str10, Str9}, s \in stats}

\* box scores of one date: valid ones, and ones a provider should not send
ScenarioStats ==
    { [atBats |-> 4, hits |-> 2, baseOnBalls |-> 0, hitByPitch |-> 0,
       sacFlies |-> 0, totalBases |-> 3],
      [atBats |-> 0, baseOnBalls |-> 1],
      [atBats |-> 3, hits |-> 1, baseOnBalls |-> 0, totalBases |-> 1],
      [atBats |-> 4, hits |-> 3, doubles |-> 1, triples |-> 0, homeRuns |-> 1,
       totalBases |-> 0],
      [atBats |-> 1, hits |-> 1, homeRuns |-> 1],
      [atBats |-> 1, hitByPitch |-> 1, sacFlies |-> 1],
      [atBats |-> 1, hits |-> 2, totalBases |-> 2],
      [atBats |-> 1, hits |-> 1, totalBases |-> 5],
      [atBats |-> 1, hits |-> 1, totalBases |-> -1],
      [atBats |-> 1, hits |-> 0, doubles |-> 1],
      [atBats |-> 1, hits |-> -1],
      [atBats |-> 1, baseOnBalls |-> -1],
      [atBats |-> 2, hitByPitch |-> -1],
      [atBats |-> 2, sacFlies |-> -1] }

ScenarioGames ==
    {[date |-> Str9, stat |-> s] : s \in ScenarioStats} \cup {[date |-> Str10]}

Games == GateGames \cup ScenarioGames

\* the sequences over S of length at most n
SeqsUpTo(S, n) == UNION {[1 .. k -> S] : k \in 0 .. n}

\* responses: without 'stats', with an empty 'stats', without 'splits', and
\* with every list of at most MaxGames records
Responses ==
    {EmptyDict, [stats |-> <<>>], [stats |-> <<EmptyDict>>]}
      \cup {[stats |-> <<[splits |-> logs]>>] : logs \in SeqsUpTo(Games, MaxGames)}

\* the total-bases family: one record, every combination of the hit fields
TotalBasesStats ==
    LET hitFields == [hits : 0 .. MaxHits, doubles : 0 .. MaxExtra,
                      triples : 0 .. MaxExtra, homeRuns : 0 .. MaxExtra]
    IN  {[atBats |-> 4] @@ f : f \in hitFields}
          \cup {[atBats |-> 4, totalBases |-> tb] @@ f :
                  f \in hitFields, tb \in (-1) .. MaxTotalBases}

TotalBasesResponses ==
    {[stats |-> <<[splits |-> <<[date |-> Str9, stat |-> s]>>]>>] : s \in TotalBasesStats}

\* the family of the fields of the wrong type: box scores that are in order,
\* box scores with null in one field, and null for the box score or the date
MalformedStats ==
    { [atBats |-> 1, hits |-> 1],
      [atBats |-> 0, baseOnBalls |-> 1],
      [atBats |-> Null],
      [atBats |-> 1, hits |-> Null],
      [atBats |-> 1, hits |-> 1, sacFlies |-> Null],
      [atBats |-> 1, hits |-> 1, totalBases |-> Null],
      [atBats |-> 1, hits |-> 1, doubles |-> Null],
      [atBats |-> 1, hits |-> 1, totalBases |-> 2, doubles |-> Null],
      NullDict }

MalformedGames ==
    {[date |-> Str9, stat |-> s] : s \in MalformedStats}
      \cup {[date |-> NullStr, stat |-> [atBats |-> 1, hits |-> 1]],
            [stat |-> [atBats |-> 1, hits |-> 1]]}

MalformedResponses ==
    {[stats |-> <<[splits |-> logs]>>] : logs \in SeqsUpTo(MalformedGames, MaxGames)}

(***************************************************************************)
(* get_player_game_log                                                     *)
(***************************************************************************)

InitWith(d) ==
    /\ pc = "fetch"
    /\ data = d
    /\ game_logs = <<>>
    /\ sorted_logs = <<>>
    /\ idx = 1
    /\ cumulative_ab = 0
    /\ cumulative_h = 0
    /\ cumulative_bb = 0
    /\ cumulative_hbp = 0
    /\ cumulative_sf = 0
    /\ cumulative_tb = 0
    /\ game_data = <<>>
    /\ result = Pending

Init == \E d \in Responses : InitWith(d)

InitTotalBases == \E d \in TotalBasesResponses : InitWith(d)

InitMalformed == \E d \in MalformedResponses : InitWith(d)

\* the response is unpacked: None without statistics, else the game logs
Unpack ==
    /\ pc = "fetch"
    /\ IF NoStats(data)
       THEN /\ result' = None
            /\ pc' = "done"
            /\ UNCHANGED game_logs
       ELSE /\ game_logs' = Splits(data)
            /\ pc' = "sort"
            /\ UNCHANGED result
    /\ cumulative_ab' = 0
    /\ cumulative_h' = 0
    /\ cumulative_bb' = 0
    /\ cumulative_hbp' = 0
    /\ cumulative_sf' = 0
    /\ cumulative_tb' = 0
    /\ game_data' = <<>>
    /\ UNCHANGED <<data, sorted_logs, idx>>

\* the for statement evaluates sorted(...) once, before the first iteration;
\* a TypeError of the comparison of the keys goes to the except clause
Sort ==
    /\ pc = "sort"
    /\ IF SortRaises(game_logs)
       THEN /\ result' = AfterException("TypeError")
            /\ pc' = IF Catches("TypeError") THEN "done" ELSE "escaped"
            /\ UNCHANGED <<sorted_logs, idx>>
       ELSE /\ sorted_logs' = SortedByDate(game_logs)
            /\ idx' = 1
            /\ pc' = "loop"
            /\ UNCHANGED result
    /\ UNCHANGED <<data, game_logs, cumulative_ab, cumulative_h, cumulative_bb,
                   cumulative_hbp, cumulative_sf, cumulative_tb, game_data>>

\* one iteration: the game is added to the sums, then a snapshot is appended
\* if the cumulative at-bats are positive.  An exception raised by a field of
\* the wrong type or by a division goes to the except clause, which returns
\* None.
LoopBody ==
    /\ pc = "loop"
    /\ idx <= Len(sorted_logs)
    /\ LET game == sorted_logs[idx]
           failed == ReadError(game) # ""
           c == IF failed THEN SumsAtError(Sums, game) ELSE Accumulate(Sums, game)
           kind == IF failed THEN ReadError(game) ELSE IterationError(game, c)
       IN  /\ cumulative_ab' = c.ab
           /\ cumulative_h' = c.h
           /\ cumulative_bb' = c.bb
           /\ cumulative_hbp' = c.hbp
           /\ cumulative_sf' = c.sf
           /\ cumulative_tb' = c.tb
           /\ game_data' = IF failed THEN game_data ELSE Emit(game_data, game, c, idx)
           /\ IF kind # ""
              THEN /\ result' = AfterException(kind)
                   /\ pc' = IF Catches(kind) THEN "done" ELSE "escaped"
                   /\ UNCHANGED idx
              ELSE /\ idx' = idx + 1
                   /\ UNCHANGED <<pc, result>>
    /\ UNCHANGED <<data, game_logs, sorted_logs>>

\* the list is exhausted: the data frame, or None if nothing was appended
Return ==
    /\ pc = "loop"
    /\ idx > Len(sorted_logs)
    /\ result' = Returned(game_data)
    /\ pc' = "done"
    /\ UNCHANGED <<data, game_logs, sorted_logs, idx, cumulative_ab, cumulative_h,
                   cumulative_bb, cumulative_hbp, cumulative_sf, cumulative_tb,
                   game_data>>

Next == Unpack \/ Sort \/ LoopBody \/ Return

Spec == Init /\ [][Next]_vars

SpecTotalBases == InitTotalBases /\ [][Next]_vars

SpecMalformed == InitMalformed /\ [][Next]_vars

(***************************************************************************)
(* Vocabulary of the properties                                            *)
(***************************************************************************)

\* a count of a record, 0 when the record does not carry it
Count(game, field) == Get(Get(game, "stat", EmptyDict), field, 0)

\* the sum of a count over the first n games of s
RECURSIVE PrefixSum(_, _, _)
PrefixSum(s, field, n) ==
    IF n = 0 THEN 0 ELSE PrefixSum(s, field, n - 1) + Count(s[n], field)

\* the sum of the resolved total bases over the first n games of s
RECURSIVE PrefixTotalBases(_, _)
PrefixTotalBases(s, n) ==
    IF n = 0 THEN 0
    ELSE PrefixTotalBases(s, n - 1) + TotalBases(Get(s[n], "stat", EmptyDict))

\* the position of the first game of s that makes the cumulative at-bats
\* positive, Len(s) + 1 if there is none
FirstPositive(s) ==
    LET hits == {i \in 1 .. Len(s) : PrefixSum(s, "atBats", i) > 0}
    IN  IF hits = {} THEN Len(s) + 1
        ELSE CHOOSE i \in hits : \A j \in hits : i <= j

CountFields == {"atBats", "hits", "baseOnBalls", "hitByPitch", "sacFlies",
                "doubles", "triples", "homeRuns", "totalBases"}

NonNegativeAtBats(logs) == \A i \in 1 .. Len(logs) : Count(logs[i], "atBats") >= 0

NonNegativeCounts(logs) ==
    \A i \in 1 .. Len(logs) : \A f \in CountFields : Count(logs[i], f) >= 0

\* hits >= doubles + triples + homeRuns in every record
ConsistentHits(logs) ==
    \A i \in 1 .. Len(logs) :
        Count(logs[i], "hits") >= Count(logs[i], "doubles")
            + Count(logs[i], "triples") + Count(logs[i], "homeRuns")

\* the games processed so far
Processed == IF pc = "fetch" \/ pc = "sort" THEN 0 ELSE idx - 1

(***************************************************************************)
(* C1  With non-negative at-bats, the snapshots are exactly the games from *)
(* the first one that makes the cumulative at-bats positive onwards: after *)
(* p games of the sorted list, with that first game at position k, there   *)
(* are p - k + 1 snapshots (none while p < k), hence n - k + 1 at the end, *)
(* and no game after the first snapshot is passed over.                    *)
(***************************************************************************)
C1_SnapshotPerGameFromFirstPositive ==
    (pc \in {"loop", "done"} /\ NonNegativeAtBats(game_logs)) =>
        LET k == FirstPositive(sorted_logs)
        IN  /\ Len(game_data) = IF Processed < k THEN 0 ELSE Processed - k + 1
            /\ pc = "done" => Len(result.rows) = Len(sorted_logs) - k + 1

\* a game without at-bats that follows the first snapshot has its own snapshot
C1_Witness ==
    /\ pc = "done"
    /\ NonNegativeAtBats(game_logs)
    /\ Len(sorted_logs) = 2
    /\ FirstPositive(sorted_logs) = 1
    /\ Count(sorted_logs[2], "atBats") = 0
    /\ Len(result.rows) = 2

(***************************************************************************)
(* C2  None is returned if and only if the response carries no game or no  *)
(* game of the sorted list makes the cumulative at-bats positive; anything *)
(* else returned is a data frame with at least one row.                    *)
(***************************************************************************)
C2_NoneIffNoPositiveAtBats ==
    pc = "done" =>
        LET logs == IF NoStats(data) THEN <<>> ELSE Splits(data)
            sorted == sorted_logs
            never == \A i \in 1 .. Len(sorted) : PrefixSum(sorted, "atBats", i) <= 0
        IN  /\ Len(sorted) = Len(logs)
            /\ result = None <=> (logs = <<>> \/ never)
            /\ result # None => (result.kind = "DataFrame" /\ result.rows # <<>>)

\* games were supplied, none of them made the at-bats positive
C2_Witness ==
    /\ pc = "done"
    /\ Len(game_logs) = 2
    /\ \E i \in 1 .. 2 : Count(game_logs[i], "baseOnBalls") > 0
    /\ result = None

(***************************************************************************)
(* C3  An iteration after which the cumulative at-bats are zero appends no *)
(* snapshot, and every snapshot carries positive cumulative at-bats.       *)
(***************************************************************************)
C3_NoSnapshotWhileZero ==
    [][ /\ (pc = "loop" /\ idx <= Len(sorted_logs)
              /\ PrefixSum(sorted_logs, "atBats", idx) = 0)
            => game_data' = game_data
        /\ \A j \in 1 .. Len(game_data') : game_data'[j].ab > 0 ]_vars

\* the first game was passed over and the second one reported
C3_Witness ==
    /\ pc = "done"
    /\ Len(sorted_logs) = 2
    /\ PrefixSum(sorted_logs, "atBats", 1) = 0
    /\ Len(game_data) = 1
    /\ game_data[1].date = DateKey(sorted_logs[2])

(***************************************************************************)
(* C4  With non-negative counts, none of the six running sums ever gets    *)
(* smaller from one game to the next.                                      *)
(***************************************************************************)
C4_SumsNeverDecrease ==
    [][ NonNegativeCounts(IF NoStats(data) THEN <<>> ELSE Splits(data)) =>
          /\ cumulative_ab' >= cumulative_ab
          /\ cumulative_h' >= cumulative_h
          /\ cumulative_bb' >= cumulative_bb
          /\ cumulative_hbp' >= cumulative_hbp
          /\ cumulative_sf' >= cumulative_sf
          /\ cumulative_tb' >= cumulative_tb ]_vars

\* two games of non-negative counts, the second adding to sums the first set
C4_Witness ==
    /\ pc = "done"
    /\ NonNegativeCounts(game_logs)
    /\ Len(sorted_logs) = 2
    /\ PrefixSum(sorted_logs, "atBats", 1) > 0
    /\ cumulative_ab > PrefixSum(sorted_logs, "atBats", 1)
    /\ PrefixTotalBases(sorted_logs, 1) > 0
    /\ cumulative_tb > PrefixTotalBases(sorted_logs, 1)

(***************************************************************************)
(* C5  Bounds of the ratios.                                               *)
(***************************************************************************)

\* avg and obp in [0,1], slg in [0,4]
RatiosInBounds(row) ==
    /\ 0 <= row.avg.num /\ row.avg.num <= row.avg.den
    /\ 0 <= row.obp.num /\ row.obp.num <= row.obp.den
    /\ 0 <= row.slg.num /\ row.slg.num <= 4 * row.slg.den

\* in every record hits <= atBats and totalBases <= 4 * atBats
WithinAtBats(logs) ==
    \A i \in 1 .. Len(logs) :
        /\ Count(logs[i], "hits") <= Count(logs[i], "atBats")
        /\ Count(logs[i], "totalBases") <= 4 * Count(logs[i], "atBats")

\* C5 as claimed: non-negative counts with hits >= doubles + triples +
\* homeRuns keep avg and obp in [0,1] and slg in [0,4] in every snapshot
C5_Claimed ==
    (NonNegativeCounts(game_logs) /\ ConsistentHits(game_logs)) =>
        \A j \in 1 .. Len(game_data) : RatiosInBounds(game_data[j])

\* C5 as amended: the bounds hold when, besides, no record has more hits than
\* at-bats or more than four total bases for each at-bat
C5_RatiosInBoundsWithinAtBats ==
    (NonNegativeCounts(game_logs) /\ ConsistentHits(game_logs)
       /\ WithinAtBats(game_logs)) =>
        \A j \in 1 .. Len(game_data) : RatiosInBounds(game_data[j])

\* a home run in one at-bat: slg is exactly 4, and avg exactly 1
C5_Witness ==
    /\ pc = "done"
    /\ NonNegativeCounts(game_logs) /\ ConsistentHits(game_logs)
    /\ WithinAtBats(game_logs)
    /\ Len(game_data) = 2
    /\ game_data[1].slg = [num |-> 4, den |-> 1]
    /\ game_data[1].avg = [num |-> 1, den |-> 1]
    /\ game_data[2].obp.num > 0

(***************************************************************************)
(* C6  The order in which the response lists the records.                  *)
(***************************************************************************)

\* the lists that hold the records of logs in some order
Reorderings(logs) ==
    {[i \in 1 .. Len(logs) |-> logs[p[i]]] : p \in Permutations(1 .. Len(logs))}

\* no two records of logs have the same sort key
DistinctDateKeys(logs) ==
    \A i, j \in 1 .. Len(logs) : i # j => DateKey(logs[i]) # DateKey(logs[j])

\* C6 as claimed: whatever the order of the records, two of them sharing a
\* date included, the value returned is the same
C6_Claimed ==
    pc = "done" => \A other \in Reorderings(game_logs) : Aggregate(other) = result

\* C6 as amended: the value returned is the same for every order of the
\* records when no two of them share a date key
C6_SameOutputForDistinctDates ==
    (pc = "done" /\ DistinctDateKeys(game_logs)) =>
        \A other \in Reorderings(game_logs) : Aggregate(other) = result

\* two records of different dates, listed latest first, both reported
C6_Witness ==
    /\ pc = "done"
    /\ Len(game_logs) = 2
    /\ DistinctDateKeys(game_logs)
    /\ game_logs # sorted_logs
    /\ Len(result.rows) = 2
    /\ result.rows[1].avg # result.rows[2].avg

(***************************************************************************)
(* C7  The total bases of one game.                                        *)
(***************************************************************************)

\* the total bases derived from the hits of a box score
DerivedTotalBases(stat) ==
    (Get(stat, "hits", 0) - Get(stat, "doubles", 0) - Get(stat, "triples", 0)
        - Get(stat, "homeRuns", 0))
      + 2 * Get(stat, "doubles", 0) + 3 * Get(stat, "triples", 0)
      + 4 * Get(stat, "homeRuns", 0)

\* the box score of the one game, once that game has been added to the sums
OnlyGameAdded == pc = "loop" /\ Len(sorted_logs) = 1 /\ idx = 2

\* C7 as claimed: the game's total bases are the provider's totalBases when
\* that is positive, and derived from the hits in every other case
C7_Claimed ==
    OnlyGameAdded =>
        LET stat == sorted_logs[1].stat
        IN  cumulative_tb = IF "totalBases" \in DOMAIN stat /\ stat.totalBases > 0
                            THEN stat.totalBases
                            ELSE DerivedTotalBases(stat)

\* C7 as amended: the game's total bases are the provider's totalBases when
\* that is present and not 0, negative values included, and derived from the
\* hits when it is absent or 0; hits 3, doubles 1, triples 0, homeRuns 1,
\* totalBases 0 gives 7
C7_TotalBasesUnlessZeroOrAbsent ==
    OnlyGameAdded =>
        LET stat == sorted_logs[1].stat
        IN  /\ cumulative_tb = IF "totalBases" \in DOMAIN stat /\ stat.totalBases # 0
                               THEN stat.totalBases
                               ELSE DerivedTotalBases(stat)
            /\ (stat = [atBats |-> 4, hits |-> 3, doubles |-> 1, triples |-> 0,
                        homeRuns |-> 1, totalBases |-> 0]) => cumulative_tb = 7

\* the game of the example, resolved to 7
C7_Witness ==
    /\ OnlyGameAdded
    /\ sorted_logs[1].stat = [atBats |-> 4, hits |-> 3, doubles |-> 1, triples |-> 0,
                              homeRuns |-> 1, totalBases |-> 0]
    /\ cumulative_tb = 7

(***************************************************************************)
(* C8  The k-th snapshot has game_number k, whatever the number of games   *)
(* that were passed over before it.                                        *)
(***************************************************************************)
C8_GameNumberIsOrdinal ==
    \A k \in 1 .. Len(game_data) : game_data[k].game_number = k

\* a game was passed over, the snapshot of the next one is number 1
C8_Witness ==
    /\ pc = "done"
    /\ Len(sorted_logs) = 2
    /\ Len(game_data) = 1
    /\ game_data[1].game_number = 1
    /\ game_data[1].date = DateKey(sorted_logs[2])

(***************************************************************************)
(* C9  A snapshot is computed from the sums over all the games up to its   *)
(* own, the ones that were passed over included.                           *)
(***************************************************************************)

\* the value of fraction f is n / d
IsRatio(f, n, d) == f.den > 0 /\ f.num * d = n * f.den

WalkOnlyGame == [date |-> Str9, stat |-> [atBats |-> 0, baseOnBalls |-> 1]]
OneForThreeGame ==
    [date |-> Str9,
     stat |-> [atBats |-> 3, hits |-> 1, baseOnBalls |-> 0, totalBases |-> 1]]

C9_SnapshotCountsEveryGame ==
    /\ (pc = "loop" /\ idx > 1 /\ PrefixSum(sorted_logs, "atBats", idx - 1) > 0) =>
          LET n == idx - 1
              ab == PrefixSum(sorted_logs, "atBats", n)
              h == PrefixSum(sorted_logs, "hits", n)
              bb == PrefixSum(sorted_logs, "baseOnBalls", n)
              hbp == PrefixSum(sorted_logs, "hitByPitch", n)
              sf == PrefixSum(sorted_logs, "sacFlies", n)
              tb == PrefixTotalBases(sorted_logs, n)
              row == game_data[Len(game_data)]
          IN  /\ game_data # <<>>
              /\ row.date = DateKey(sorted_logs[n])
              /\ row.ab = ab
              /\ row.h = h
              /\ IsRatio(row.avg, h, ab)
              /\ IsRatio(row.slg, tb, ab)
              /\ IF ab + bb + hbp + sf > 0
                 THEN IsRatio(row.obp, h + bb + hbp, ab + bb + hbp + sf)
                 ELSE row.obp.num = 0
              /\ row.ops = FracAdd(row.obp, row.slg)
    /\ (pc = "done" /\ game_logs = <<WalkOnlyGame, OneForThreeGame>>) =>
          /\ Len(result.rows) = 1
          /\ result.rows[1].ab = 3
          /\ result.rows[1].h = 1
          /\ result.rows[1].obp = [num |-> 1, den |-> 2]
          /\ result.rows[1].slg = [num |-> 1, den |-> 3]
          /\ result.rows[1].ops = [num |-> 5, den |-> 6]

\* the walk of the game that was passed over is in the snapshot of the next
C9_Witness ==
    /\ pc = "done"
    /\ game_logs = <<WalkOnlyGame, OneForThreeGame>>
    /\ Len(result.rows) = 1
    /\ result.rows[1].obp = [num |-> 1, den |-> 2]

(***************************************************************************)
(* C10  The four ratios of a snapshot, as exact fractions of the running   *)
(* sums at the time it is appended.                                        *)
(***************************************************************************)

ScenarioAGame ==
    [date |-> Str9,
     stat |-> [atBats |-> 4, hits |-> 2, baseOnBalls |-> 0, hitByPitch |-> 0,
               sacFlies |-> 0, totalBases |-> 3]]

C10_RatiosOfTheSums ==
    /\ (pc = "loop" /\ idx > 1 /\ cumulative_ab > 0) =>
          LET row == game_data[Len(game_data)]
              den == cumulative_ab + cumulative_bb + cumulative_hbp + cumulative_sf
          IN  /\ game_data # <<>>
              /\ IsRatio(row.avg, cumulative_h, cumulative_ab)
              /\ IsRatio(row.slg, cumulative_tb, cumulative_ab)
              /\ IF den > 0
                 THEN IsRatio(row.obp, cumulative_h + cumulative_bb + cumulative_hbp, den)
                 ELSE row.obp = [num |-> 0, den |-> 1]
              /\ IsRatio(row.ops,
                         row.obp.num * row.slg.den + row.slg.num * row.obp.den,
                         row.obp.den * row.slg.den)
    /\ (pc = "done" /\ game_logs = <<ScenarioAGame>>) =>
          /\ Len(result.rows) = 1
          /\ result.rows[1].avg = [num |-> 1, den |-> 2]
          /\ result.rows[1].obp = [num |-> 1, den |-> 2]
          /\ result.rows[1].slg = [num |-> 3, den |-> 4]
          /\ result.rows[1].ops = [num |-> 5, den |-> 4]

\* the single game of the example, with its four ratios
C10_Witness ==
    /\ pc = "done"
    /\ game_logs = <<ScenarioAGame>>
    /\ result.rows[1].ops = [num |-> 5, den |-> 4]

(***************************************************************************)
(* C11  A field that is null or missing in some record does not turn a     *)
(* response whose remaining data make the cumulative at-bats positive into *)
(* "no data".                                                              *)
(***************************************************************************)

\* the box score without its null fields
StatWithoutNulls(stat) == [f \in {g \in DOMAIN stat : stat[g] # Null} |-> stat[f]]

\* the record without its null fields: what remains of its data
GameWithoutNulls(game) ==
    LET date == IF "date" \in DOMAIN game /\ game.date # NullStr
                THEN [date |-> game.date] ELSE EmptyDict
        stat == IF "stat" \in DOMAIN game /\ game.stat # NullDict
                THEN [stat |-> StatWithoutNulls(game.stat)] ELSE EmptyDict
    IN  date @@ stat

WithoutNulls(logs) == [i \in 1 .. Len(logs) |-> GameWithoutNulls(logs[i])]

\* some record of logs has a null or missing field
HasNullOrMissingField(logs) ==
    \E i \in 1 .. Len(logs) :
        \/ GameWithoutNulls(logs[i]) # logs[i]
        \/ DOMAIN logs[i] # {"date", "stat"}
        \/ DOMAIN GameWithoutNulls(logs[i]).stat # CountFields

\* C11 as claimed: when the data that remain make the cumulative at-bats
\* positive, a data frame with at least one row is returned
C11_Claimed ==
    (pc = "done" /\ HasNullOrMissingField(game_logs)) =>
        LET rest == SortedByDate(WithoutNulls(game_logs))
        IN  (\E i \in 1 .. Len(rest) : PrefixSum(rest, "atBats", i) > 0) =>
                (result.kind = "DataFrame" /\ result.rows # <<>>)

(***************************************************************************)
(* C12  Whatever field of whatever record is null or missing, no exception *)
(* leaves get_player_game_log: the call goes on until it returns, and it   *)
(* returns a data frame or None.                                           *)
(***************************************************************************)
\* an upper bound of the steps left before the return
StepsLeft ==
    IF pc = "fetch" THEN (IF NoStats(data) THEN 0 ELSE Len(Splits(data))) + 3
    ELSE IF pc = "sort" THEN Len(game_logs) + 2
    ELSE IF pc = "loop" THEN Len(sorted_logs) - idx + 2
    ELSE 0

C12_NoExceptionEscapes ==
    /\ [](/\ pc \in {"fetch", "sort", "loop", "done"}
          /\ pc = "done" => result.kind \in {"None", "DataFrame"}
          /\ pc # "done" => (result = Pending /\ ENABLED Next))
    /\ [][StepsLeft' < StepsLeft]_vars

\* a null count in the second record: the snapshot of the first is dropped,
\* None is returned
C12_Witness ==
    /\ pc = "done"
    /\ result = None
    /\ Len(sorted_logs) = 2
    /\ idx = 2
    /\ ReadError(sorted_logs[2]) = "TypeError"
    /\ Len(game_data) = 1

(***************************************************************************)
(* C13  The dates of the snapshots never go down, as strings compare, a    *)
(* missing date being the empty string.                                    *)
(***************************************************************************)
C13_SnapshotDatesAscend ==
    \A i, j \in 1 .. Len(game_data) :
        i < j => ~StrLess(game_data[j].date, game_data[i].date)

\* listed '9' first and '10' second, reported '10' first: '10' < '9'
C13_Witness ==
    /\ pc = "done"
    /\ Len(game_logs) = 2
    /\ DateKey(game_logs[1]) = Str9
    /\ DateKey(game_logs[2]) = Str10
    /\ Len(result.rows) = 2
    /\ result.rows[1].date = Str10
    /\ result.rows[2].date = Str9

(***************************************************************************)
(* C14  Records of the same date key are added to the sums in the order of *)
(* the input: the sort is stable.                                          *)
(***************************************************************************)

\* the records of s whose date key is d, in the order of s
WithDateKey(s, d) == SelectSeq(s, LAMBDA g : DateKey(g) = d)

C14_EqualDatesKeepInputOrder ==
    pc \in {"loop", "done"} =>
        \A i \in 1 .. Len(game_logs) :
            LET d == DateKey(game_logs[i])
            IN  WithDateKey(sorted_logs, d) = WithDateKey(game_logs, d)

\* two records without a date: the first of the input is the first snapshot
C14_Witness ==
    /\ pc = "done"
    /\ Len(game_logs) = 2
    /\ DOMAIN game_logs[1] = {"stat"}
    /\ DOMAIN game_logs[2] = {"stat"}
    /\ Count(game_logs[1], "atBats") = 1
    /\ Count(game_logs[2], "atBats") = 0
    /\ sorted_logs = game_logs
    /\ Len(result.rows) = 2

(***************************************************************************)
(* C15  No division by zero is evaluated, whatever the integer counts: the *)
(* divisions by the cumulative at-bats are behind the gate, and obp is set *)
(* to 0 when its denominator is not positive.                              *)
(***************************************************************************)
C15_NoDivisionByZero ==
    /\ \A j \in 1 .. Len(game_data) :
          /\ game_data[j].avg.den > 0
          /\ game_data[j].slg.den > 0
          /\ game_data[j].obp.den > 0
          /\ game_data[j].ops.den > 0
    /\ (pc = "loop" /\ idx <= Len(sorted_logs)) =>
          LET c == Accumulate(Sums, sorted_logs[idx])
          IN  /\ ~Raises(c)
              /\ (Emits(c) /\ c.ab + c.bb + c.hbp + c.sf <= 0) => OnBase(c) = Zero
    /\ (pc = "done" /\ ~NoStats(data)) => idx = Len(sorted_logs) + 1

\* a walk taken back makes the denominator of obp 0: obp is 0, no division
C15_Witness ==
    /\ pc = "done"
    /\ Len(game_data) = 1
    /\ cumulative_ab = 1
    /\ cumulative_ab + cumulative_bb + cumulative_hbp + cumulative_sf = 0
    /\ result.rows[1].obp = Zero

(***************************************************************************)
(* C16  A count that is absent from a record counts as 0, and an absent    *)
(* date as the empty string: putting them in changes nothing.              *)
(***************************************************************************)

\* logs with count f of record i set to 0
WithZeroCount(logs, i, f) ==
    LET stat == Get(logs[i], "stat", EmptyDict)
        game == [stat |-> ([k \in {f} |-> 0] @@ stat)] @@ logs[i]
    IN  [logs EXCEPT ![i] = game]

\* logs with the date of record i set to ''
WithEmptyDate(logs, i) == [logs EXCEPT ![i] = [date |-> EmptyStr] @@ logs[i]]

C16_AbsentIsZeroOrEmpty ==
    pc = "done" =>
        \A i \in 1 .. Len(game_logs) :
            /\ \A f \in CountFields \ DOMAIN Get(game_logs[i], "stat", EmptyDict) :
                  Aggregate(WithZeroCount(game_logs, i, f)) = result
            /\ "date" \notin DOMAIN game_logs[i] =>
                  Aggregate(WithEmptyDate(game_logs, i)) = result

\* a record without date and without hits, listed behind a dated one, is
\* reported first
C16_Witness ==
    /\ pc = "done"
    /\ Len(game_logs) = 2
    /\ "date" \in DOMAIN game_logs[1]
    /\ DOMAIN game_logs[2] = {"stat"}
    /\ DOMAIN game_logs[2].stat = {"atBats"}
    /\ sorted_logs[1] = game_logs[2]
    /\ Len(result.rows) = 2
    /\ result.rows[1].date = EmptyStr

(***************************************************************************)
(* C17  With non-negative at-bats the last snapshot of a data frame holds  *)
(* the totals over all the games of the input, and its ratios are those of *)
(* the totals; it is the same for every order of the input.                *)
(***************************************************************************)

\* the values of a snapshot, without its date and its number
ValuesOf(row) == <<row.ab, row.h, row.avg, row.obp, row.slg, row.ops>>

C18_FallbackUnreachable ==
    (pc = "loop" /\ idx <= Len(sorted_logs) /\ NonNegativeCounts(game_logs)) =>
        LET c == Accumulate(Sums, sorted_logs[idx])
            denominator_obp == c.ab + c.bb + c.hbp + c.sf
        IN  Emits(c) =>
              /\ c.ab > 0
              /\ denominator_obp >= c.ab
              /\ OnBase(c) = Frac(c.h + c.bb + c.hbp, denominator_obp)

\* behind the gate with a sacrifice fly and a hit by pitch in the denominator
C18_Witness ==
    /\ pc = "loop"
    /\ idx <= Len(sorted_logs)
    /\ NonNegativeCounts(game_logs)
    /\ Emits(Accumulate(Sums, sorted_logs[idx]))
    /\ Accumulate(Sums, sorted_logs[idx]).sf > 0
    /\ Accumulate(Sums, sorted_logs[idx]).hbp > 0
    /\ Accumulate(Sums, sorted_logs[idx]).ab = 1

====
